---- MODULE Spec2Model ----
(***************************************************************************)
(* Model of netapp-deleter: the cascading deleter                          *)
(* (netapp_deleter/resource_deleter.py: delete_netapp_resources) and the   *)
(* fleet orchestrator (netapp_deleter/app.py:                              *)
(* list_and_delete_netapp_accounts), run against a model of the remote     *)
(* provider inventory, together with the entry point (app.py: main) and    *)
(* the subscription selection (netapp_deleter/azure_utils.py).             *)
(*                                                                         *)
(* A string is a sequence of tokens; the token "/" is the separator the    *)
(* code splits on, every other token stands for a run of non-slash         *)
(* characters.  A name is one segment: a sequence of tokens without "/".   *)
(***************************************************************************)
EXTENDS Integers, Sequences, FiniteSets, TLC

\* ---------------------------------------------------------------- bounds
MaxAccounts == 2
MaxWorkers == 2
MaxPools == 1
MaxVolumes == 1
MaxVaults == 2
MaxBackups == 1
MaxFaults == 2
MaxSubscriptions == 3

\* ---------------------------------------------------- program constants
\* resource_deleter.py:135-136
max_retries == 3
retry_delay == 30
\* resource_deleter.py:149
NestedResourcesMsg == "Cannot delete resource while nested resources exist"

\* The names netapp_deleter/app.py binds at module level (app.py:5-9).
AppModuleNames ==
    {"os", "concurrent", "logger", "RED", "setup_logging",
     "get_azure_clients", "delete_netapp_resources"}

\* ------------------------------------------------------------- str.split
RECURSIVE SplitFrom(_, _, _, _)
SplitFrom(s, i, cur, acc) ==
    IF i > Len(s) THEN Append(acc, cur)
    ELSE IF s[i] = "/" THEN SplitFrom(s, i + 1, <<>>, Append(acc, cur))
    ELSE SplitFrom(s, i + 1, Append(cur, s[i]), acc)

\* s.split("/"): always at least one segment, empty segments kept.
Split(s) == SplitFrom(s, 1, <<>>, <<>>)

\* parts[-1]
LastPart(parts) == parts[Len(parts)]

\* resource_deleter.py:21: the 0-based index of the resource-group segment.
RgSegment == 4

NoError == [type |-> "none", msg |-> "", at |-> <<"none">>]
IndexErrorAt(id) == [type |-> "IndexError", msg |-> "list index out of range", at |-> <<"id", id>>]

\* A parse that reads the segment before the resource group's (off by one).
ParseAccountId_OffByOne(id) ==
    LET parts == Split(id) IN
    IF Len(parts) > RgSegment - 1
    THEN [ok |-> TRUE, rg |-> parts[RgSegment], name |-> LastPart(parts), err |-> NoError]
    ELSE [ok |-> FALSE, rg |-> <<>>, name |-> <<>>, err |-> IndexErrorAt(id)]

\* resource_deleter.py:20-22: parts = id.split("/"); parts[4]; parts[-1].
\* parts[4] raises IndexError when there are fewer than 5 segments.
ParseAccountId(id) ==
    LET parts == Split(id) IN
    IF Len(parts) > RgSegment
    THEN [ok |-> TRUE, rg |-> parts[RgSegment + 1], name |-> LastPart(parts), err |-> NoError]
    ELSE [ok |-> FALSE, rg |-> <<>>, name |-> <<>>, err |-> IndexErrorAt(id)]

\* ------------------------------------------------------------- fixtures
AccountIdOf(rg, name) ==
    <<"/", "subscriptions", "/", "sub", "/", "resourceGroups", "/", rg, "/",
      "providers", "/", "Microsoft.NetApp", "/", "netAppAccounts", "/", name>>

\* An identifier with four segments: "", "subscriptions", "sub", "resourceGroups".
ShortId == <<"/", "subscriptions", "/", "sub", "/", "resourceGroups">>

\* The identifiers a listing is drawn from, in listing order.  The first two
\* accounts live in the same resource group.
KnownIds ==
    <<AccountIdOf("rg1", "a1"), AccountIdOf("rg1", "a2"),
      AccountIdOf("rg2", "a3"), ShortId>>


\* The listings of at most MaxAccounts identifiers: sub-sequences of KnownIds.
Listings ==
    { SelectSeq(KnownIds, LAMBDA id : \E i \in pick : KnownIds[i] = id) :
        pick \in { q \in SUBSET (1 .. Len(KnownIds)) : Cardinality(q) <= MaxAccounts } }

\* The identifiers one cascade is tried on: the known ones, the empty string,
\* a bare name, and an identifier of exactly five segments.
CascadeIds ==
    { KnownIds[i] : i \in 1 .. Len(KnownIds) }
    \cup { <<>>, <<"a1">>,
           <<"/", "subscriptions", "/", "sub", "/", "resourceGroups", "/", "rg1">> }

CascadeListings == {<<>>} \cup { <<id>> : id \in CascadeIds }

PoolName(i) == <<"p" \o ToString(i)>>
VolumeName(i) == <<"v" \o ToString(i)>>
VaultName(i) == <<"bv" \o ToString(i)>>
BackupName(i) == <<"b" \o ToString(i)>>

\* What one account holds at the start: np pools of nv volumes each, nbv
\* backup vaults of nb backups each.
Shapes ==
    { sh \in [np : 0 .. MaxPools, nv : 0 .. MaxVolumes,
              nbv : 0 .. MaxVaults, nb : 0 .. MaxBackups] :
        /\ (sh.np = 0 => sh.nv = 0)
        /\ (sh.nbv = 0 => sh.nb = 0) }

\* Remote resources are tuples: kind, then the path of names.
RG(rg) == <<"rg", rg>>
Account(rg, a) == <<"account", rg, a>>
Pool(rg, a, p) == <<"pool", rg, a, p>>
Volume(rg, a, p, v) == <<"volume", rg, a, p, v>>
Vault(rg, a, bv) == <<"vault", rg, a, bv>>
Backup(rg, a, bv, b) == <<"backup", rg, a, bv, b>>

InventoryOf(rg, a, sh) ==
    {RG(rg), Account(rg, a)}
    \cup { Pool(rg, a, PoolName(i)) : i \in 1 .. sh.np }
    \cup { Volume(rg, a, PoolName(i), VolumeName(j)) : i \in 1 .. sh.np, j \in 1 .. sh.nv }
    \cup { Vault(rg, a, VaultName(i)) : i \in 1 .. sh.nbv }
    \cup { Backup(rg, a, VaultName(i), BackupName(j)) : i \in 1 .. sh.nbv, j \in 1 .. sh.nb }

\* The inventory behind a listing: every well-formed identifier names an
\* existing account of the given shape.
InventoryFor(ids, sh) ==
    UNION { IF ParseAccountId(ids[i]).ok
            THEN InventoryOf(ParseAccountId(ids[i]).rg, ParseAccountId(ids[i]).name, sh)
            ELSE {} : i \in 1 .. Len(ids) }

\* What subscriptions.list() can yield: up to MaxSubscriptions subscriptions,
\* each with its id and its is_default attribute ("unset": the object has no
\* such attribute).
DefaultFlags == {"True", "False", "unset"}
SubscriptionName(i) == "s" \o ToString(i)

SubscriptionLists ==
    UNION { { [i \in 1 .. n |-> [subscription_id |-> SubscriptionName(i), is_default |-> f[i]]] :
              f \in [1 .. n -> DefaultFlags] } : n \in 0 .. MaxSubscriptions }

OneSubscription == <<[subscription_id |-> SubscriptionName(1), is_default |-> "unset"]>>

\* os.environ at startup, by the names that are set.
CaBundle == "REQUESTS_CA_BUNDLE"
Environments == {{"PATH", CaBundle}}
AnyEnvironment == SUBSET {"PATH", CaBundle}

\* ------------------------------------------------------------ variables
VARIABLES
    remote,             \* the provider's inventory: the set of existing resources
    initial,            \* the inventory at the start (never changes)
    listing,            \* what accounts.list_by_subscription() yields (ids)
    skip_confirmation,  \* argument of list_and_delete_netapp_accounts
    max_workers,        \* argument of list_and_delete_netapp_accounts
    opc,                \* where the orchestrator is
    prompted,           \* the responses read by input(), in order
    netapp_accounts,    \* the orchestrator's local list
    observed,           \* the futures as_completed has yielded so far
    raised,             \* the exception propagating out of the with block
    result,             \* what list_and_delete_netapp_accounts ended with
    task,               \* one record per submitted future
    list_calls,         \* how often accounts.list_by_subscription() was called
    pool_created,       \* the ThreadPoolExecutor has been constructed
    mpc,                \* where main() is
    environ,            \* os.environ: the names that are set
    startup_environ,    \* os.environ as the process found it (never changes)
    subscriptions,      \* what subscriptions.list() yields
    subscription_id,    \* the id the clients were built with
    main_end            \* how main() ended

mainVars == <<mpc, environ, startup_environ, subscriptions, subscription_id, main_end>>

vars ==
    <<remote, initial, listing, skip_confirmation, max_workers, opc, prompted,
      netapp_accounts, observed, raised, result, task, list_calls, pool_created,
      mainVars>>

NoResult == [status |-> "none", err |-> NoError]
Returned == [status |-> "returned", err |-> NoError]
RaisedWith(e) == [status |-> "raised", err |-> e]

\* The inventories of a fleet run: every account empty, or every account
\* holding one pool with one volume and one vault with one backup.
FleetShapes ==
    {[np |-> 0, nv |-> 0, nbv |-> 0, nb |-> 0], [np |-> 1, nv |-> 1, nbv |-> 1, nb |-> 1]}

\* main() has not ended yet.
StillRunning == [how |-> "running", code |-> 0, err |-> NoError]

Start(ids, shapes, workers, subs, envs) ==
    /\ listing \in ids
    /\ \E sh \in shapes :
          /\ remote = InventoryFor(listing, sh)
          /\ initial = remote
    /\ skip_confirmation \in BOOLEAN
    /\ max_workers \in workers
    /\ opc = "idle"
    /\ prompted = <<>>
    /\ netapp_accounts = <<>>
    /\ observed = {}
    /\ raised = NoError
    /\ result = NoResult
    /\ task = <<>>
    /\ list_calls = 0
    /\ pool_created = FALSE
    /\ mpc = "start"
    /\ environ \in envs
    /\ startup_environ = environ
    /\ subscriptions \in subs
    /\ subscription_id = ""
    /\ main_end = StillRunning

\* One cascade: a listing of at most one identifier, any shape.
Init == Start(CascadeListings, Shapes, {1}, {OneSubscription}, Environments)

\* A fleet: any listing, any pool width.
FleetInit == Start(Listings, FleetShapes, 1 .. MaxWorkers, {OneSubscription}, Environments)

\* main() end to end: any visible subscriptions, any environment, at most
\* one account.
MainInit == Start(CascadeListings, FleetShapes, {1}, SubscriptionLists, AnyEnvironment)

\* ------------------------------------------------------- provider model
\* The provider clients are external.  Every call either answers as the
\* inventory dictates (injected = FALSE) or misbehaves (injected = TRUE): a
\* service error on any call, a nested-resources conflict that lags behind
\* the inventory, a vault delete that reports completion and removes nothing.
NotFound(target) ==
    [type |-> "ResourceNotFoundError", msg |-> "not found", at |-> target]
ServiceError(target) ==
    [type |-> "HttpResponseError", msg |-> "service error", at |-> target]
Conflict(target) ==
    [type |-> "HttpResponseError", msg |-> NestedResourcesMsg, at |-> target]
NotEmpty(target) ==
    [type |-> "HttpResponseError", msg |-> "resource group not empty", at |-> target]
StillExists(target) ==
    [type |-> "Exception", msg |-> "deletion failed - resource still exists", at |-> target]
NameErrorRST ==
    [type |-> "NameError", msg |-> "name 'RST' is not defined", at |-> <<"none">>]

Ok == [ok |-> TRUE, err |-> NoError, injected |-> FALSE, removes |-> FALSE]
Removed == [ok |-> TRUE, err |-> NoError, injected |-> FALSE, removes |-> TRUE]
Refused(e) == [ok |-> FALSE, err |-> e, injected |-> FALSE, removes |-> FALSE]
Injected(e) == [ok |-> FALSE, err |-> e, injected |-> TRUE, removes |-> FALSE]
FalseCompletion == [ok |-> TRUE, err |-> NoError, injected |-> TRUE, removes |-> FALSE]

IsChildKind(k) == k \in {"pool", "volume", "vault", "backup"}

\* Something is still nested under account a of resource group rg.
NestedExist(inv, rg, a) ==
    \E r \in inv : IsChildKind(r[1]) /\ r[2] = rg /\ r[3] = a

\* The resource group still holds something.
GroupHolds(inv, rg) ==
    \E r \in inv : r[1] # "rg" /\ r[2] = rg

\* The provider misbehaves at most MaxFaults times in a run.
Misbehaved(tasks) ==
    LET n(t) == Cardinality({ i \in DOMAIN tasks[t].trace : tasks[t].trace[i].injected })
        sum[k \in 0 .. Len(tasks)] == IF k = 0 THEN 0 ELSE sum[k - 1] + n(k)
    IN sum[Len(tasks)]

Within(tasks, outcomes) ==
    { o \in outcomes : o.injected => Misbehaved(tasks) < MaxFaults }

ListOutcomes(target) == {Ok, Injected(ServiceError(target))}

DeleteOutcomes(inv, target) ==
    (IF target \in inv THEN {Removed} ELSE {Refused(NotFound(target))})
    \cup {Injected(ServiceError(target))}

VaultDeleteOutcomes(inv, target) ==
    DeleteOutcomes(inv, target)
    \cup (IF target \in inv THEN {FalseCompletion} ELSE {})

GetOutcomes(inv, target) ==
    (IF target \in inv THEN {Ok} ELSE {Refused(NotFound(target))})
    \cup {Injected(ServiceError(target))}

AccountDeleteOutcomes(inv, rg, a) ==
    LET target == Account(rg, a) IN
    (IF target \notin inv THEN {Refused(NotFound(target))}
     ELSE IF NestedExist(inv, rg, a) THEN {Refused(Conflict(target))}
     ELSE {Removed, Injected(Conflict(target))})
    \cup {Injected(ServiceError(target))}

GroupDeleteOutcomes(inv, rg) ==
    LET target == RG(rg) IN
    (IF target \notin inv THEN {Refused(NotFound(target))}
     ELSE IF GroupHolds(inv, rg) THEN {Refused(NotEmpty(target))}
     ELSE {Removed})
    \cup {Injected(ServiceError(target))}

\* A delete whose completion is not waited for: nothing is gone yet.
After_NoEffect(inv, target, o) == inv

\* The inventory after a call with outcome o on target.
After(inv, target, o) == IF o.removes THEN inv \ {target} ELSE inv

\* What a listing yields: the existing children, in name order.  Pools and
\* volumes are listed by their own name, vaults and backups by the composite
\* name "<parent>/<name>".
Composite(parent, name) == parent \o <<"/">> \o name

\* The indices up to n, as the sequence 1, 2, ..., n.
Indices(n) == [i \in 1 .. n |-> i]

ListedPools(inv, rg, a) ==
    LET idx == SelectSeq(Indices(MaxPools), LAMBDA i : Pool(rg, a, PoolName(i)) \in inv) IN
    [k \in 1 .. Len(idx) |-> PoolName(idx[k])]
ListedVolumes(inv, rg, a, p) ==
    LET idx == SelectSeq(Indices(MaxVolumes),
                         LAMBDA i : Volume(rg, a, p, VolumeName(i)) \in inv) IN
    [k \in 1 .. Len(idx) |-> VolumeName(idx[k])]
ListedVaults(inv, rg, a) ==
    LET idx == SelectSeq(Indices(MaxVaults), LAMBDA i : Vault(rg, a, VaultName(i)) \in inv) IN
    [k \in 1 .. Len(idx) |-> Composite(a, VaultName(idx[k]))]
ListedBackups(inv, rg, a, bv) ==
    LET idx == SelectSeq(Indices(MaxBackups),
                         LAMBDA i : Backup(rg, a, bv, BackupName(i)) \in inv) IN
    [k \in 1 .. Len(idx) |-> Composite(Composite(a, bv), BackupName(idx[k]))]

\* ---------------------------------------------- delete_netapp_resources
\* One record per future: the cascade's locals, its position, its outcome and
\* the provider calls (and sleeps) it has made so far.
NewTask(id) ==
    [id |-> id, state |-> "pending", pc |-> "start", rg |-> <<>>, name |-> <<>>,
     pools |-> <<>>, pi |-> 0, volumes |-> <<>>, vi |-> 0,
     vaults |-> <<>>, bvi |-> 0, backups |-> <<>>, bi |-> 0,
     attempt |-> 0, err |-> NoError, trace |-> <<>>]

Logged(tk, op, target, o) ==
    [tk EXCEPT !.trace = Append(@, [op |-> op, target |-> target, ok |-> o.ok,
                                    err |-> o.err, injected |-> o.injected, dur |-> 0])]

\* A retry that does not wait.
Slept_Skipped(tk, d) == tk

Slept(tk, d) ==
    [tk EXCEPT !.trace = Append(@, [op |-> "sleep", target |-> <<"sleep">>, ok |-> TRUE,
                                    err |-> NoError, injected |-> FALSE, dur |-> d])]

\* An exception leaves the function: the future ends failed with it.
Fail(tk, e) == [tk EXCEPT !.state = "failed", !.pc = "done", !.err = e]

\* resource_deleter.py:50-56: stage 2 starts.
EnterVaultStage(tk) == [tk EXCEPT !.pc = "list_vaults"]

\* resource_deleter.py:30: the next pool of the loop, or the loop's end.
NextPool(tk) ==
    IF tk.pi < Len(tk.pools)
    THEN [tk EXCEPT !.pi = @ + 1, !.pc = "list_volumes"]
    ELSE EnterVaultStage(tk)

\* A volume loop that stops one short.
NextVolume_SkipsLast(tk) ==
    IF tk.vi < Len(tk.volumes) - 1
    THEN [tk EXCEPT !.vi = @ + 1, !.pc = "delete_volume"]
    ELSE NextPool(tk)

\* resource_deleter.py:35: the next volume of the loop, or the next pool.
NextVolume(tk) ==
    IF tk.vi < Len(tk.volumes)
    THEN [tk EXCEPT !.vi = @ + 1, !.pc = "delete_volume"]
    ELSE NextPool(tk)

\* An account stage that goes straight to the resource group.
EnterAccountStage_SkipAccount(tk) == [tk EXCEPT !.attempt = 0, !.pc = "delete_rg"]

\* resource_deleter.py:133-138: stage 3 starts with attempt 0.
EnterAccountStage(tk) == [tk EXCEPT !.attempt = 0, !.pc = "delete_account"]

\* resource_deleter.py:59: the next vault of the loop, or the loop's end.
NextVault(tk) ==
    IF tk.bvi < Len(tk.vaults)
    THEN [tk EXCEPT !.bvi = @ + 1, !.pc = "list_backups"]
    ELSE EnterAccountStage(tk)

\* A vault loop that deletes the vault without deleting its backups.
NextBackup_VaultFirst(tk) == [tk EXCEPT !.pc = "delete_vault"]

\* resource_deleter.py:73-96: the next backup of the loop, or the vault itself.
NextBackup(tk) ==
    IF tk.bi < Len(tk.backups)
    THEN [tk EXCEPT !.bi = @ + 1, !.pc = "delete_backup"]
    ELSE [tk EXCEPT !.pc = "delete_vault"]

\* A vault name taken as listed, composite and all.
vault_name_Composite(tk) == tk.vaults[tk.bvi]

\* resource_deleter.py:61 and :76: name.split("/")[-1]
vault_name(tk) == LastPart(Split(tk.vaults[tk.bvi]))
backup_name(tk) == LastPart(Split(tk.backups[tk.bi]))

\* A handler that logs the error and goes on with the loop (no re-raise).
VolumeDeleteFailed_Swallowed(tk, e) == NextVolume(tk)
BackupDeleteFailed_Swallowed(tk, e) == NextBackup(tk)

\* resource_deleter.py:46-48, 129-131, 172-174: log, re-raise.
ListFailed(tk, e) == Fail(tk, e)
\* resource_deleter.py:43-48, 172-174: log, re-raise.
VolumeDeleteFailed(tk, e) == Fail(tk, e)
\* resource_deleter.py:87-91, 123-131, 172-174: log, re-raise.
BackupDeleteFailed(tk, e) == Fail(tk, e)
\* resource_deleter.py:117-131, 172-174: log, re-raise.
VaultDeleteFailed(tk, e) == Fail(tk, e)
\* resource_deleter.py:168-174: log, re-raise.
GroupDeleteFailed(tk, e) == Fail(tk, e)

\* A check that takes any answer of the fetch for "gone".
PostDeleteCheck_Trusting(tk, target, o) ==
    IF o.ok \/ o.err.type = "ResourceNotFoundError" THEN NextVault(tk) ELSE Fail(tk, o.err)

\* A check that takes any failing fetch for "gone".
PostDeleteCheck_AnyErrorGone(tk, target, o) ==
    IF o.ok THEN Fail(tk, StillExists(target)) ELSE NextVault(tk)

\* resource_deleter.py:104-127: the fetch succeeding raises Exception; only
\* ResourceNotFoundError is caught and counts as deleted.
PostDeleteCheck(tk, target, o) ==
    IF o.ok THEN Fail(tk, StillExists(target))
    ELSE IF o.err.type = "ResourceNotFoundError" THEN NextVault(tk)
    ELSE Fail(tk, o.err)

\* A retry on any error at all.
ShouldRetry_AnyError(e, attempt) == attempt < max_retries - 1

\* A retry test that lets the last attempt retry too.
ShouldRetry_OffByOne(e, attempt) ==
    e.msg = NestedResourcesMsg /\ attempt < max_retries

\* resource_deleter.py:148-151
ShouldRetry(e, attempt) ==
    e.msg = NestedResourcesMsg /\ attempt < max_retries - 1

\* resource_deleter.py:143-160: break, or sleep and continue, or re-raise.
AfterAccountDelete(tk, o) ==
    IF o.ok THEN [tk EXCEPT !.pc = "delete_rg"]
    ELSE IF ShouldRetry(o.err, tk.attempt) THEN [tk EXCEPT !.pc = "sleep"]
    ELSE Fail(tk, o.err)

\* resource_deleter.py:138, 155-156: continue; range(max_retries) running out
\* ends the loop and falls through to the resource group.
AfterSleep(tk) ==
    IF tk.attempt + 1 < max_retries
    THEN [tk EXCEPT !.attempt = @ + 1, !.pc = "delete_account"]
    ELSE [tk EXCEPT !.attempt = @ + 1, !.pc = "delete_rg"]

\* resource_deleter.py:164-170
AfterGroupDelete(tk, o) ==
    IF o.ok THEN [tk EXCEPT !.state = "succeeded", !.pc = "done"]
    ELSE GroupDeleteFailed(tk, o.err)

orchVars ==
    <<initial, listing, skip_confirmation, max_workers, opc, prompted,
      netapp_accounts, observed, raised, result, list_calls, pool_created,
      mainVars>>

At(t, pc) == t \in DOMAIN task /\ task[t].state = "running" /\ task[t].pc = pc

\* resource_deleter.py:29
ListPools(t) ==
    /\ At(t, "list_pools")
    /\ LET tk == task[t]
           target == <<"pools", tk.rg, tk.name>> IN
       \E o \in Within(task, ListOutcomes(target)) :
          task' = [task EXCEPT ![t] =
                     IF o.ok
                     THEN NextPool([Logged(tk, "list", target, o) EXCEPT
                                      !.pools = ListedPools(remote, tk.rg, tk.name), !.pi = 0])
                     ELSE ListFailed(Logged(tk, "list", target, o), o.err)]
    /\ UNCHANGED <<remote, orchVars>>

\* resource_deleter.py:32-34
ListVolumes(t) ==
    /\ At(t, "list_volumes")
    /\ LET tk == task[t]
           pool == tk.pools[tk.pi]
           target == <<"volumes", tk.rg, tk.name, pool>> IN
       \E o \in Within(task, ListOutcomes(target)) :
          task' = [task EXCEPT ![t] =
                     IF o.ok
                     THEN NextVolume([Logged(tk, "list", target, o) EXCEPT
                                        !.volumes = ListedVolumes(remote, tk.rg, tk.name, pool),
                                        !.vi = 0])
                     ELSE ListFailed(Logged(tk, "list", target, o), o.err)]
    /\ UNCHANGED <<remote, orchVars>>

\* resource_deleter.py:37-45
DeleteVolume(t) ==
    /\ At(t, "delete_volume")
    /\ LET tk == task[t]
           target == Volume(tk.rg, tk.name, tk.pools[tk.pi], tk.volumes[tk.vi]) IN
       \E o \in Within(task, DeleteOutcomes(remote, target)) :
          /\ remote' = After(remote, target, o)
          /\ task' = [task EXCEPT ![t] =
                        IF o.ok THEN NextVolume(Logged(tk, "delete", target, o))
                        ELSE VolumeDeleteFailed(Logged(tk, "delete", target, o), o.err)]
    /\ UNCHANGED orchVars

\* resource_deleter.py:54-56
ListVaults(t) ==
    /\ At(t, "list_vaults")
    /\ LET tk == task[t]
           target == <<"vaults", tk.rg, tk.name>> IN
       \E o \in Within(task, ListOutcomes(target)) :
          task' = [task EXCEPT ![t] =
                     IF o.ok
                     THEN NextVault([Logged(tk, "list", target, o) EXCEPT
                                       !.vaults = ListedVaults(remote, tk.rg, tk.name), !.bvi = 0])
                     ELSE ListFailed(Logged(tk, "list", target, o), o.err)]
    /\ UNCHANGED <<remote, orchVars>>

\* resource_deleter.py:67-71
ListBackups(t) ==
    /\ At(t, "list_backups")
    /\ LET tk == task[t]
           target == <<"backups", tk.rg, tk.name, vault_name(tk)>> IN
       \E o \in Within(task, ListOutcomes(target)) :
          task' = [task EXCEPT ![t] =
                     IF o.ok
                     THEN NextBackup([Logged(tk, "list", target, o) EXCEPT
                                        !.backups = ListedBackups(remote, tk.rg, tk.name,
                                                                  vault_name(tk)),
                                        !.bi = 0])
                     ELSE ListFailed(Logged(tk, "list", target, o), o.err)]
    /\ UNCHANGED <<remote, orchVars>>

\* resource_deleter.py:78-91
DeleteBackup(t) ==
    /\ At(t, "delete_backup")
    /\ LET tk == task[t]
           target == Backup(tk.rg, tk.name, vault_name(tk), backup_name(tk)) IN
       \E o \in Within(task, DeleteOutcomes(remote, target)) :
          /\ remote' = After(remote, target, o)
          /\ task' = [task EXCEPT ![t] =
                        IF o.ok THEN NextBackup(Logged(tk, "delete", target, o))
                        ELSE BackupDeleteFailed(Logged(tk, "delete", target, o), o.err)]
    /\ UNCHANGED orchVars

\* resource_deleter.py:97-101
DeleteVault(t) ==
    /\ At(t, "delete_vault")
    /\ LET tk == task[t]
           target == Vault(tk.rg, tk.name, vault_name(tk)) IN
       \E o \in Within(task, VaultDeleteOutcomes(remote, target)) :
          /\ remote' = After(remote, target, o)
          /\ task' = [task EXCEPT ![t] =
                        IF o.ok THEN [Logged(tk, "delete", target, o) EXCEPT !.pc = "get_vault"]
                        ELSE VaultDeleteFailed(Logged(tk, "delete", target, o), o.err)]
    /\ UNCHANGED orchVars

\* resource_deleter.py:104-121
GetVault(t) ==
    /\ At(t, "get_vault")
    /\ LET tk == task[t]
           target == Vault(tk.rg, tk.name, vault_name(tk)) IN
       \E o \in Within(task, GetOutcomes(remote, target)) :
          task' = [task EXCEPT ![t] = PostDeleteCheck(Logged(tk, "get", target, o), target, o)]
    /\ UNCHANGED <<remote, orchVars>>

\* resource_deleter.py:139-160
DeleteAccount(t) ==
    /\ At(t, "delete_account")
    /\ LET tk == task[t]
           target == Account(tk.rg, tk.name) IN
       \E o \in Within(task, AccountDeleteOutcomes(remote, tk.rg, tk.name)) :
          /\ remote' = After(remote, target, o)
          /\ task' = [task EXCEPT ![t] = AfterAccountDelete(Logged(tk, "delete", target, o), o)]
    /\ UNCHANGED orchVars

\* resource_deleter.py:155-156
Sleep(t) ==
    /\ At(t, "sleep")
    /\ task' = [task EXCEPT ![t] = AfterSleep(Slept(task[t], retry_delay))]
    /\ UNCHANGED <<remote, orchVars>>

\* resource_deleter.py:164-170
DeleteResourceGroup(t) ==
    /\ At(t, "delete_rg")
    /\ LET tk == task[t]
           target == RG(tk.rg) IN
       \E o \in Within(task, GroupDeleteOutcomes(remote, tk.rg)) :
          /\ remote' = After(remote, target, o)
          /\ task' = [task EXCEPT ![t] = AfterGroupDelete(Logged(tk, "delete", target, o), o)]
    /\ UNCHANGED orchVars


\* ------------------------------------- list_and_delete_netapp_accounts
Responses == {"y", "Y", "n", ""}

\* str.lower() on the responses above.
Lower(r) == IF r = "Y" THEN "y" ELSE r

\* A module-level name the function reads resolves only if the module binds it.
Resolves(name) == name \in AppModuleNames

\* app.py:55: the f-string reads RED and RST before anything else happens in
\* the handler; an unbound name raises NameError in place of line 57-59.
CancelReached == Resolves("RED") /\ Resolves("RST")

\* app.py:54-59: what leaves the with block when a future's result() raised e.
TaskFailureRaises(e) == IF CancelReached THEN e ELSE NameErrorRST

\* app.py:61-63: the outer handler logs (reading RED and RST), then re-raises.
FunctionRaises(e) == IF Resolves("RED") /\ Resolves("RST") THEN e ELSE NameErrorRST

Running == { t \in DOMAIN task : task[t].state = "running" }
Pending == { t \in DOMAIN task : task[t].state = "pending" }
Finished == { t \in DOMAIN task : task[t].state \in {"succeeded", "failed", "cancelled"} }

\* A pool that starts work whenever work is queued.
WorkerAvailable_Unbounded == TRUE

\* app.py:44: ThreadPoolExecutor(max_workers): at most max_workers threads,
\* each running one work item at a time.
WorkerAvailable == Cardinality(Running) < max_workers

\* app.py:57-58: f.cancel() for every future; only a pending one is cancelled.
CancelPending(tasks) ==
    [t \in DOMAIN tasks |->
        IF tasks[t].state = "pending" THEN [tasks[t] EXCEPT !.state = "cancelled", !.pc = "done"]
        ELSE tasks[t]]

\* A listing that skips the emptiness test.
AfterListing_NoEmptyCheck(accounts, skip) == IF skip THEN "submit" ELSE "confirm"

\* app.py:28-35: where the function goes once the listing is in hand.
AfterListing(accounts, skip) ==
    IF accounts = <<>> THEN "returned"
    ELSE IF skip THEN "submit" ELSE "confirm"

\* app.py:26-41: the listing, the empty case, the confirmation gate.
ListAccounts ==
    /\ opc = "list"
    /\ list_calls' = list_calls + 1
    /\ \E o \in ListOutcomes(<<"accounts">>) :
          IF ~o.ok
          THEN /\ raised' = o.err
               /\ result' = RaisedWith(FunctionRaises(o.err))
               /\ opc' = "returned"
               /\ UNCHANGED netapp_accounts
          ELSE /\ netapp_accounts' = listing
               /\ UNCHANGED raised
               /\ opc' = AfterListing(listing, skip_confirmation)
               /\ result' = IF opc' = "returned" THEN Returned ELSE result
    /\ UNCHANGED <<remote, initial, listing, skip_confirmation, max_workers, prompted,
                   observed, task, pool_created, mainVars>>

\* A gate that proceeds unless the user says no.
Declined_DefaultYes(response) == Lower(response) = "n"

\* app.py:39: response.lower() != "y"
Declined(response) == Lower(response) # "y"

\* app.py:35-41
Confirm ==
    /\ opc = "confirm"
    /\ \E response \in Responses :
          /\ prompted' = Append(prompted, response)
          /\ IF Declined(response)
             THEN result' = Returned /\ opc' = "returned"
             ELSE UNCHANGED result /\ opc' = "submit"
    /\ UNCHANGED <<remote, initial, listing, skip_confirmation, max_workers,
                   netapp_accounts, observed, raised, task, list_calls, pool_created,
                   mainVars>>

\* A comprehension that loses the last account.
SubmittedTasks_DropLast(accounts) ==
    [i \in 1 .. Len(accounts) - 1 |-> NewTask(accounts[i])]

\* app.py:45-48: the dict comprehension submits one future per account.
SubmittedTasks(accounts) ==
    [i \in 1 .. Len(accounts) |-> NewTask(accounts[i])]

\* app.py:44-48: one future per account, queued in listing order.
Submit ==
    /\ opc = "submit"
    /\ pool_created' = TRUE
    /\ task' = SubmittedTasks(netapp_accounts)
    /\ opc' = "collect"
    /\ UNCHANGED <<remote, initial, listing, skip_confirmation, max_workers, prompted,
                   netapp_accounts, observed, raised, result, list_calls, mainVars>>

\* A worker takes the oldest queued future and enters delete_netapp_resources
\* (resource_deleter.py:20-22: the split, parts[4], parts[-1]).
StartTask(t) ==
    /\ opc \in {"collect", "shutdown"}
    /\ t \in Pending
    /\ \A u \in Pending : t <= u
    /\ WorkerAvailable
    /\ LET p == ParseAccountId(task[t].id) IN
       task' = [task EXCEPT ![t] =
                  IF p.ok
                  THEN [@ EXCEPT !.state = "running", !.pc = "list_pools",
                                 !.rg = p.rg, !.name = p.name]
                  ELSE Fail(@, p.err)]
    /\ UNCHANGED <<remote, orchVars>>

\* app.py:50-59: as_completed yields a finished future; result() returns or
\* raises; the handler logs, cancels and re-raises.
Observe(t) ==
    /\ opc = "collect"
    /\ t \in Finished \ observed
    /\ observed' = observed \cup {t}
    /\ IF task[t].state = "succeeded"
       THEN /\ UNCHANGED <<task, raised>>
            /\ IF observed' = DOMAIN task
               THEN result' = Returned /\ opc' = "returned"
               ELSE UNCHANGED <<result, opc>>
       ELSE /\ raised' = TaskFailureRaises(task[t].err)
            /\ task' = IF CancelReached THEN CancelPending(task) ELSE task
            /\ opc' = "shutdown"
            /\ UNCHANGED result
    /\ UNCHANGED <<remote, initial, listing, skip_confirmation, max_workers, prompted,
                   netapp_accounts, list_calls, pool_created, mainVars>>

\* A pool shut down without waiting for its workers.
WorkersJoined_NoWait == TRUE

\* app.py:44: ThreadPoolExecutor.__exit__ is shutdown(wait=True): it returns
\* once no work item is queued or running.
WorkersJoined == Running = {} /\ Pending = {}

\* app.py:44, 61-63: leaving the with block waits for every worker (shutdown
\* with wait=True runs what is still queued), then the outer handler runs.
AwaitShutdown ==
    /\ opc = "shutdown"
    /\ WorkersJoined
    /\ result' = RaisedWith(FunctionRaises(raised))
    /\ opc' = "returned"
    /\ UNCHANGED <<remote, initial, listing, skip_confirmation, max_workers, prompted,
                   netapp_accounts, observed, raised, task, list_calls, pool_created,
                   mainVars>>

\* ------------------------------------------ get_subscription_id, main
\* azure_utils.py:21-23
NoSubscriptions ==
    [type |-> "ValueError",
     msg |-> "No subscriptions found. Please ensure you have access to at least one subscription.",
     at |-> <<"subscriptions">>]

\* azure_utils.py:37-38: whatever was raised inside the try is replaced by a
\* ValueError carrying its text.
SubscriptionError(e) ==
    [type |-> "ValueError", msg |-> "Failed to get subscription ID: " \o e.msg,
     at |-> <<"subscriptions">>]

\* azure_utils.py:31: getattr(sub, "is_default", False), tested for truth.
IsDefault(sub) ==
    (IF sub.is_default = "unset" THEN "False" ELSE sub.is_default) = "True"

\* azure_utils.py:30-32: the index of the first subscription the loop returns
\* on, 0 when the loop falls through.
RECURSIVE FirstDefault(_, _)
FirstDefault(subs, i) ==
    IF i > Len(subs) THEN 0
    ELSE IF IsDefault(subs[i]) THEN i
    ELSE FirstDefault(subs, i + 1)

GotId(id) == [ok |-> TRUE, id |-> id, err |-> NoError]
NoId(e) == [ok |-> FALSE, id |-> "", err |-> e]

\* A selection that never looks at is_default.
get_subscription_id_FirstOnly(o, subs) ==
    IF ~o.ok THEN NoId(SubscriptionError(o.err))
    ELSE IF subs = <<>> THEN NoId(SubscriptionError(NoSubscriptions))
    ELSE GotId(subs[1].subscription_id)

\* A selection without the emptiness test: an empty list yields no id (None)
\* instead of an error.
get_subscription_id_NoEmptyCheck(o, subs) ==
    IF ~o.ok THEN NoId(SubscriptionError(o.err))
    ELSE IF subs = <<>> THEN GotId("None")
    ELSE IF Len(subs) = 1 THEN GotId(subs[1].subscription_id)
    ELSE IF FirstDefault(subs, 1) # 0 THEN GotId(subs[FirstDefault(subs, 1)].subscription_id)
    ELSE GotId(subs[1].subscription_id)

\* azure_utils.py:12-38, o being the outcome of subscriptions.list().
get_subscription_id(o, subs) ==
    IF ~o.ok THEN NoId(SubscriptionError(o.err))
    ELSE IF subs = <<>> THEN NoId(SubscriptionError(NoSubscriptions))
    ELSE IF Len(subs) = 1 THEN GotId(subs[1].subscription_id)
    ELSE IF FirstDefault(subs, 1) # 0 THEN GotId(subs[FirstDefault(subs, 1)].subscription_id)
    ELSE GotId(subs[1].subscription_id)

\* main() ran off its end.
MainReturns == [how |-> "returned", code |-> 0, err |-> NoError]

\* A handler that logs and forgets to exit.
MainHandler_NoExit(e) == MainReturns

\* app.py:93-95: the handler logs (reading RED and RST), then calls exit(1);
\* an unbound name raises NameError out of the handler and out of main().
MainHandler(e) ==
    IF Resolves("RED") /\ Resolves("RST")
    THEN [how |-> "exit", code |-> 1, err |-> e]
    ELSE [how |-> "uncaught", code |-> 0, err |-> NameErrorRST]

\* app.py:98-99: the status the interpreter ends with: the argument of
\* exit(), 1 after an uncaught exception, 0 after main() returned.
ExitStatus(end) ==
    IF end.how = "exit" THEN end.code
    ELSE IF end.how = "uncaught" THEN 1
    ELSE 0

\* An entry point that leaves the environment as it is.
ClearedEnviron_Kept(env) == env

\* app.py:86-87: del os.environ["REQUESTS_CA_BUNDLE"] if it is set.
ClearedEnviron(env) == IF CaBundle \in env THEN env \ {CaBundle} ELSE env

\* app.py:84-87
ClearCaBundle ==
    /\ mpc = "start"
    /\ environ' = ClearedEnviron(environ)
    /\ mpc' = "clients"
    /\ UNCHANGED <<remote, initial, listing, skip_confirmation, max_workers, opc, prompted,
                   netapp_accounts, observed, raised, result, task, list_calls,
                   pool_created, startup_environ, subscriptions, subscription_id, main_end>>

\* app.py:90, azure_utils.py:41-47: the clients are built with the selected
\* subscription id, then main() calls list_and_delete_netapp_accounts; a
\* failure goes to main()'s handler.
GetAzureClients ==
    /\ mpc = "clients"
    /\ \E o \in ListOutcomes(<<"subscriptions">>) :
          LET r == get_subscription_id(o, subscriptions) IN
          IF r.ok
          THEN /\ subscription_id' = r.id
               /\ mpc' = "orchestrate"
               /\ opc' = "list"
               /\ UNCHANGED main_end
          ELSE /\ main_end' = MainHandler(r.err)
               /\ mpc' = "exited"
               /\ UNCHANGED <<subscription_id, opc>>
    /\ UNCHANGED <<remote, initial, listing, skip_confirmation, max_workers, prompted,
                   netapp_accounts, observed, raised, result, task, list_calls,
                   pool_created, environ, startup_environ, subscriptions>>

\* app.py:92-95: list_and_delete_netapp_accounts returned or raised.
MainEnds ==
    /\ mpc = "orchestrate"
    /\ opc = "returned"
    /\ main_end' = IF result.status = "raised" THEN MainHandler(result.err) ELSE MainReturns
    /\ mpc' = "exited"
    /\ UNCHANGED <<remote, initial, listing, skip_confirmation, max_workers, opc, prompted,
                   netapp_accounts, observed, raised, result, task, list_calls,
                   pool_created, environ, startup_environ, subscriptions, subscription_id>>

Tasks == 1 .. MaxAccounts

Next ==
    \/ ClearCaBundle
    \/ GetAzureClients
    \/ MainEnds
    \/ ListAccounts
    \/ Confirm
    \/ Submit
    \/ \E t \in Tasks : StartTask(t)
    \/ \E t \in Tasks : ListPools(t)
    \/ \E t \in Tasks : ListVolumes(t)
    \/ \E t \in Tasks : DeleteVolume(t)
    \/ \E t \in Tasks : ListVaults(t)
    \/ \E t \in Tasks : ListBackups(t)
    \/ \E t \in Tasks : DeleteBackup(t)
    \/ \E t \in Tasks : DeleteVault(t)
    \/ \E t \in Tasks : GetVault(t)
    \/ \E t \in Tasks : DeleteAccount(t)
    \/ \E t \in Tasks : Sleep(t)
    \/ \E t \in Tasks : DeleteResourceGroup(t)
    \/ \E t \in Tasks : Observe(t)
    \/ AwaitShutdown

Spec == Init /\ [][Next]_vars

FleetSpec == FleetInit /\ [][Next]_vars

MainSpec == MainInit /\ [][Next]_vars


\* ============================================================== claims
IsDelete(e, kinds) == e.op = "delete" /\ e.target[1] \in kinds
IsAccountDelete(e) == IsDelete(e, {"account"})
IsGroupDelete(e) == IsDelete(e, {"rg"})
IsChildDelete(e) == IsDelete(e, {"volume", "vault", "backup"})
IsCall(e) == e.op # "sleep"
IsConflict(e) == ~e.ok /\ e.err.msg = "Cannot delete resource while nested resources exist"
TaskDone(t) == task[t].state \in {"succeeded", "failed"}

\* C1: within one cascade the deletes go bottom-up: every volume, backup and
\* vault delete of the cascade comes before its first account delete and has
\* completed successfully by then; the resource-group delete comes right after
\* an account delete that completed successfully; no pool is ever deleted.
C1_BottomUp ==
    \A t \in DOMAIN task :
        LET tr == task[t].trace IN
        \A j \in DOMAIN tr :
            /\ ~IsDelete(tr[j], {"pool"})
            /\ IsAccountDelete(tr[j]) =>
                  \A i \in DOMAIN tr : IsChildDelete(tr[i]) => (i < j /\ tr[i].ok)
            /\ IsGroupDelete(tr[j]) =>
                  /\ j > 1 /\ IsAccountDelete(tr[j - 1]) /\ tr[j - 1].ok
                  /\ \A i \in DOMAIN tr : (IsChildDelete(tr[i]) \/ IsAccountDelete(tr[i])) => i < j

\* A cascade that deleted a volume, a backup and a vault and then issued the
\* account delete.
C1_Witness ==
    \E t \in DOMAIN task :
        LET tr == task[t].trace IN
        /\ \E i \in DOMAIN tr : IsDelete(tr[i], {"volume"}) /\ tr[i].ok
        /\ \E i \in DOMAIN tr : IsDelete(tr[i], {"backup"}) /\ tr[i].ok
        /\ \E i \in DOMAIN tr : IsDelete(tr[i], {"vault"}) /\ tr[i].ok
        /\ \E i \in DOMAIN tr : IsAccountDelete(tr[i])

\* The account stage of a trace: account deletes, sleeps, resource-group deletes.
AccountStage(tr) ==
    SelectSeq(tr, LAMBDA e : IsAccountDelete(e) \/ e.op = "sleep" \/ IsGroupDelete(e))
Attempts(tr) == SelectSeq(tr, IsAccountDelete)
AllConflicts(tr) ==
    /\ Attempts(tr) # <<>>
    /\ \A k \in DOMAIN Attempts(tr) : IsConflict(Attempts(tr)[k])

\* C2: never a 4th account-delete attempt; and a finished cascade whose every
\* account-delete attempt met the nested-resources conflict made exactly 3
\* attempts with a sleep of 30 after the 1st and after the 2nd and none after
\* the 3rd, issued no resource-group delete and failed with the 3rd conflict.
C2_RetryBound ==
    \A t \in DOMAIN task :
        LET tr == task[t].trace
            st == AccountStage(tr) IN
        /\ Len(Attempts(tr)) <= 3
        /\ (TaskDone(t) /\ AllConflicts(tr)) =>
              /\ Len(st) = 5
              /\ IsAccountDelete(st[1]) /\ IsAccountDelete(st[3]) /\ IsAccountDelete(st[5])
              /\ st[2].op = "sleep" /\ st[2].dur = 30
              /\ st[4].op = "sleep" /\ st[4].dur = 30
              /\ tr[Len(tr)] = st[5]
              /\ task[t].state = "failed"
              /\ task[t].err = st[5].err

\* A finished cascade that met the conflict on all three attempts.
C2_Witness ==
    \E t \in DOMAIN task :
        /\ TaskDone(t)
        /\ AllConflicts(task[t].trace)
        /\ Len(Attempts(task[t].trace)) = 3


SomeFailureObserved == \E t \in observed : task[t].state = "failed"

\* C3: when the orchestrator handles the first failed future, every future
\* still pending becomes cancelled, and a future pending after a failure was
\* observed never starts its cascade.
C3_PendingCancelled ==
    [][\A t \in DOMAIN task :
          /\ (opc = "collect" /\ opc' = "shutdown" /\ task[t].state = "pending")
                => task'[t].state = "cancelled"
          /\ (SomeFailureObserved /\ task[t].state = "pending")
                => task'[t].state \in {"pending", "cancelled"}]_vars

\* C4: once a failed future has been observed, the function ends by raising
\* exactly that future's error.
C4_FirstErrorSurfaced ==
    \A t \in observed :
        (task[t].state = "failed" /\ opc = "returned") => result = RaisedWith(task[t].err)

\* C5: at most max_workers cascades are executing at any time.
C5_ConcurrencyBound == Cardinality(Running) <= max_workers

\* Every worker is busy and a future is still waiting in the queue.
C5_Witness == Cardinality(Running) = max_workers /\ Pending # {}

DeleteTargets(t) ==
    { task[t].trace[i].target : i \in { k \in DOMAIN task[t].trace : task[t].trace[k].op = "delete" } }

\* C6: two distinct cascades of one run never issue a delete for the same
\* remote resource.
C6_DisjointDeletes ==
    \A t1, t2 \in DOMAIN task : t1 # t2 => DeleteTargets(t1) \cap DeleteTargets(t2) = {}

NothingLeft(rg, a) ==
    /\ RG(rg) \notin remote
    /\ Account(rg, a) \notin remote
    /\ ~NestedExist(remote, rg, a)

FaithfulRun(t) == \A i \in DOMAIN task[t].trace : ~task[t].trace[i].injected

\* C7: against a provider that only enforces the hierarchy, a cascade on a
\* well-formed identifier that has terminated has succeeded, and the account,
\* everything beneath it and its resource group are gone.
C7_CascadeSucceeds ==
    \A t \in DOMAIN task :
        (TaskDone(t) /\ ParseAccountId(task[t].id).ok /\ FaithfulRun(t)) =>
            /\ task[t].state = "succeeded"
            /\ NothingLeft(task[t].rg, task[t].name)

\* A conflict the retry loop absorbs: followed by a sleep, or about to be.
Retried(t, i) ==
    LET tr == task[t].trace IN
    /\ IsAccountDelete(tr[i]) /\ IsConflict(tr[i])
    /\ IF i < Len(tr) THEN tr[i + 1].op = "sleep" ELSE task[t].pc = "sleep"

FailedLast(t, i) ==
    /\ i = Len(task[t].trace)
    /\ task[t].state = "failed"
    /\ task[t].err = task[t].trace[i].err

\* C8 as stated: any provider call that fails, unless it is a retried
\* conflict, is the cascade's last call and its error is the cascade's result.
C8_FailFast_AsStated ==
    \A t \in DOMAIN task : \A i \in DOMAIN task[t].trace :
        LET e == task[t].trace[i] IN
        (IsCall(e) /\ ~e.ok /\ ~Retried(t, i)) => FailedLast(t, i)

ExpectedNotFound(e) == e.op = "get" /\ ~e.ok /\ e.err.type = "ResourceNotFoundError"

\* C8 (amended): any provider call that fails, unless it is a retried conflict
\* or the post-delete fetch answering "not found", is the cascade's last call
\* and its error, unchanged, is the cascade's result.
C8_FailFast ==
    \A t \in DOMAIN task : \A i \in DOMAIN task[t].trace :
        LET e == task[t].trace[i] IN
        (IsCall(e) /\ ~e.ok /\ ~Retried(t, i) /\ ~ExpectedNotFound(e)) => FailedLast(t, i)

\* A cascade that went on after a "not found" fetch and then died on a
\* failing call.
C8_Witness ==
    \E t \in DOMAIN task :
        LET tr == task[t].trace IN
        /\ task[t].state = "failed"
        /\ Len(tr) > 1
        /\ IsCall(tr[Len(tr)]) /\ ~tr[Len(tr)].ok /\ ~ExpectedNotFound(tr[Len(tr)])
        /\ \E i \in 1 .. Len(tr) - 1 : ExpectedNotFound(tr[i])

IsListOf(e, kind) == e.op = "list" /\ e.target[1] = kind

\* C9: a vault is fetched right after its delete reported completion, and only
\* then; a fetch that succeeds ends the cascade in failure with no further
\* call; a fetch answering "not found" lets the cascade go on with the next
\* vault's backups or with the account delete.
C9_PostDeleteCheck ==
    \A t \in DOMAIN task :
        LET tr == task[t].trace IN
        \A i \in DOMAIN tr :
            /\ (IsDelete(tr[i], {"vault"}) /\ tr[i].ok) =>
                  IF i < Len(tr)
                  THEN tr[i + 1].op = "get" /\ tr[i + 1].target = tr[i].target
                  ELSE task[t].state = "running" /\ task[t].pc = "get_vault"
            /\ tr[i].op = "get" =>
                  /\ i > 1 /\ IsDelete(tr[i - 1], {"vault"}) /\ tr[i - 1].ok
                  /\ tr[i - 1].target = tr[i].target
                  /\ tr[i].ok =>
                        /\ i = Len(tr)
                        /\ task[t].state = "failed"
                        /\ task[t].err = StillExists(tr[i].target)
                  /\ ExpectedNotFound(tr[i]) =>
                        IF i < Len(tr)
                        THEN IsListOf(tr[i + 1], "backups") \/ IsAccountDelete(tr[i + 1])
                        ELSE /\ task[t].state = "running"
                             /\ task[t].pc \in {"list_backups", "delete_account"}

\* A cascade that passed the check on one vault, went on to the next, and
\* failed the check there.
C9_Witness ==
    \E t \in DOMAIN task :
        LET tr == task[t].trace IN
        /\ task[t].state = "failed"
        /\ tr # <<>> /\ tr[Len(tr)].op = "get" /\ tr[Len(tr)].ok
        /\ \E i \in 1 .. Len(tr) - 1 :
              ExpectedNotFound(tr[i]) /\ IsListOf(tr[i + 1], "backups")

Segments(id) == Len(Split(id))

\* C10: a cascade started on an identifier of fewer than 5 segments has failed
\* with the index error and has issued no provider call.
C10_MalformedIdentifier ==
    \A t \in DOMAIN task :
        (Segments(task[t].id) < 5 /\ task[t].state # "pending") =>
            /\ task[t].state = "failed"
            /\ task[t].err.type = "IndexError"
            /\ task[t].trace = <<>>

\* A cascade that was run on an identifier of fewer than 5 segments.
C10_Witness ==
    \E t \in DOMAIN task : Segments(task[t].id) < 5 /\ task[t].state = "failed"

\* C11: an account-delete attempt that fails with anything but the
\* nested-resources conflict ends the cascade on the spot: it is the last
\* entry of the trace (no sleep, no further attempt, no resource-group delete
\* after it), the cascade has failed with that error, and no resource-group
\* delete was issued at all.
C11_OtherErrorFatal ==
    \A t \in DOMAIN task :
        LET tr == task[t].trace IN
        \A i \in DOMAIN tr :
            (IsAccountDelete(tr[i]) /\ ~tr[i].ok /\ ~IsConflict(tr[i])) =>
                /\ i = Len(tr)
                /\ task[t].state = "failed"
                /\ task[t].pc = "done"
                /\ task[t].err = tr[i].err
                /\ \A j \in DOMAIN tr : ~IsGroupDelete(tr[j])

\* A cascade whose first account-delete attempt failed with a service error.
C11_Witness ==
    \E t \in DOMAIN task :
        LET tr == task[t].trace IN
        /\ task[t].state = "failed"
        /\ Len(Attempts(tr)) = 1
        /\ IsAccountDelete(tr[Len(tr)])
        /\ ~tr[Len(tr)].ok
        /\ tr[Len(tr)].err.msg = "service error"

NoDeleteIssued ==
    \A t \in DOMAIN task : \A i \in DOMAIN task[t].trace : task[t].trace[i].op # "delete"

NothingSubmitted == ~pool_created /\ task = <<>>

\* C12: once the listing call has answered with no account, the function has
\* returned normally after that single listing call, has not prompted, has
\* not built the pool or any task and has deleted nothing, whatever
\* skip_confirmation is.
C12_EmptyListing ==
    (list_calls > 0 /\ raised = NoError /\ listing = <<>>) =>
        /\ list_calls = 1
        /\ opc = "returned"
        /\ result = Returned
        /\ prompted = <<>>
        /\ NothingSubmitted
        /\ NoDeleteIssued
        /\ remote = initial

\* An empty listing met without skip_confirmation.
C12_Witness ==
    /\ listing = <<>>
    /\ list_calls = 1
    /\ raised = NoError
    /\ ~skip_confirmation
    /\ result = Returned

Affirmative(r) == r \in {"y", "Y"}

\* C13: the prompt is shown at most once and never with skip_confirmation;
\* after any response other than "y" or "Y" (the empty one included) the
\* function has returned normally with no task submitted and nothing deleted.
C13_Declined ==
    /\ skip_confirmation => prompted = <<>>
    /\ Len(prompted) <= 1
    /\ (prompted # <<>> /\ ~Affirmative(prompted[1])) =>
          /\ ~skip_confirmation
          /\ netapp_accounts # <<>>
          /\ opc = "returned"
          /\ result = Returned
          /\ NothingSubmitted
          /\ NoDeleteIssued
          /\ remote = initial

\* The user just pressed return at the prompt.
C13_Witness ==
    /\ prompted = <<"">>
    /\ netapp_accounts # <<>>
    /\ result = Returned

Terminated(tk) == tk.state \in {"succeeded", "failed", "cancelled"}

\* C14: a running cascade is never taken out of its run by anyone else: in
\* every step it stays running or ends succeeded or failed (never cancelled,
\* never back to pending); and the step in which the function ends leaves no
\* future pending or running.
C14_NoInterruption ==
    [][/\ \A t \in DOMAIN task :
             task[t].state = "running" =>
                 task'[t].state \in {"running", "succeeded", "failed"}
       /\ (opc # "returned" /\ opc' = "returned") =>
             \A t \in DOMAIN task' : Terminated(task'[t])]_vars

\* The function has ended with an error and a cascade that was not the one
\* observed to fail has run to its own success.
C14_Witness ==
    /\ opc = "returned"
    /\ result.status = "raised"
    /\ \E t \in DOMAIN task : t \notin observed /\ task[t].state = "succeeded"

\* The cascades entered for an identifier: each starts with the pools listing.
CascadeEntries(t) ==
    Cardinality({ i \in DOMAIN task[t].trace :
                    task[t].trace[i].op = "list" /\ task[t].trace[i].target[1] = "pools" })

\* C15: the pool is built only after an affirmative response or with
\* skip_confirmation; once it is built there is exactly one future per listed
\* account, in listing order; and when the function has ended with every
\* future succeeded it has returned normally and every listed account was
\* entered by exactly one cascade, once.
C15_OneTaskPerAccount ==
    /\ ~pool_created => task = <<>>
    /\ pool_created =>
          /\ skip_confirmation \/ (prompted # <<>> /\ Affirmative(prompted[1]))
          /\ Len(task) = Len(listing)
          /\ \A i \in DOMAIN listing : task[i].id = listing[i]
    /\ (pool_created /\ opc = "returned" /\ \A t \in DOMAIN task : task[t].state = "succeeded") =>
          /\ result = Returned
          /\ \A i \in DOMAIN listing :
                /\ Cardinality({ t \in DOMAIN task : task[t].id = listing[i] }) = 1
                /\ \A t \in DOMAIN task : task[t].id = listing[i] => CascadeEntries(t) = 1

\* Two listed accounts, both cascades succeeded, the function returned.
C15_Witness ==
    /\ opc = "returned"
    /\ result = Returned
    /\ Len(listing) = 2
    /\ Len(task) = 2
    /\ \A t \in DOMAIN task : task[t].state = "succeeded"

\* The account of cascade t held no pool and no backup vault at the start.
Childless(t) ==
    /\ ParseAccountId(task[t].id).ok
    /\ ~NestedExist(initial, ParseAccountId(task[t].id).rg, ParseAccountId(task[t].id).name)

Deletes(tr) == SelectSeq(tr, LAMBDA e : e.op = "delete")

\* C16: the cascade of an account without pools and vaults issues no volume,
\* backup, vault or pool delete and no vault fetch; its deletes are
\* account-delete attempts, then at most one resource-group delete, which
\* comes right after the successful account delete; against a provider that
\* never misbehaves the finished cascade issued exactly the account delete and
\* then the resource-group delete.
C16_EmptyAccount ==
    \A t \in DOMAIN task :
        LET tr == task[t].trace
            p == ParseAccountId(task[t].id) IN
        Childless(t) =>
            /\ \A i \in DOMAIN tr :
                  /\ ~IsChildDelete(tr[i]) /\ ~IsDelete(tr[i], {"pool"})
                  /\ tr[i].op # "get"
                  /\ IsGroupDelete(tr[i]) =>
                        /\ i = Len(tr)
                        /\ i > 1 /\ IsAccountDelete(tr[i - 1]) /\ tr[i - 1].ok
            /\ task[t].state = "succeeded" =>
                  /\ Len(Deletes(tr)) >= 2
                  /\ IsGroupDelete(Deletes(tr)[Len(Deletes(tr))])
                  /\ \A k \in 1 .. Len(Deletes(tr)) - 1 : IsAccountDelete(Deletes(tr)[k])
            /\ (TaskDone(t) /\ FaithfulRun(t)) =>
                  /\ Len(Deletes(tr)) = 2
                  /\ Deletes(tr)[1].target = Account(p.rg, p.name) /\ Deletes(tr)[1].ok
                  /\ Deletes(tr)[2].target = RG(p.rg)

\* A cascade on an empty account that succeeded with four calls: two
\* listings, the account delete, the resource-group delete.
C16_Witness ==
    \E t \in DOMAIN task :
        /\ Childless(t)
        /\ task[t].state = "succeeded"
        /\ Len(task[t].trace) = 4
        /\ Len(Deletes(task[t].trace)) = 2

ClientInitFailed == mpc = "exited" /\ opc = "idle"

\* C17: when main() has ended, the exit status is 1 if the clients could not
\* be built or list_and_delete_netapp_accounts raised, and 0 if
\* list_and_delete_netapp_accounts returned (every cascade succeeded, no
\* account was listed, or the user declined).
C17_ExitStatus ==
    mpc = "exited" =>
        /\ ClientInitFailed => ExitStatus(main_end) = 1
        /\ result.status = "raised" => ExitStatus(main_end) = 1
        /\ result.status = "returned" => ExitStatus(main_end) = 0
        /\ ClientInitFailed \/ result.status \in {"raised", "returned"}

\* main() has ended after a cascade failed.
C17_Witness ==
    /\ mpc = "exited"
    /\ result.status = "raised"
    /\ \E t \in DOMAIN task : task[t].state = "failed"
    /\ ExitStatus(main_end) = 1

CompletedDelete(e) == e.op = "delete" /\ e.ok /\ ~e.injected

\* C18: no step adds a resource to the provider's inventory; after every step
\* the target of every delete that completed is absent; and the only calls
\* ever issued are listings, deletes and the post-delete fetch.
C18_OnlyShrinks ==
    [][/\ remote' \subseteq remote
       /\ \A t \in DOMAIN task' : \A i \in DOMAIN task'[t].trace :
             LET e == task'[t].trace[i] IN
             /\ e.op \in {"list", "delete", "get", "sleep"}
             /\ CompletedDelete(e) => e.target \notin remote']_vars

\* A cascade that failed after one of its deletes had completed: what it
\* deleted is still gone.
C18_Witness ==
    \E t \in DOMAIN task :
        /\ task[t].state = "failed"
        /\ \E i \in DOMAIN task[t].trace :
              /\ CompletedDelete(task[t].trace[i])
              /\ task[t].trace[i].target \in initial \ remote

Flagged(sub) == sub.is_default = "True"

\* What the selection rule names for a non-empty list: the sole subscription,
\* else the first flagged one, else the first.
Selected(subs, id) ==
    IF Len(subs) = 1 THEN id = subs[1].subscription_id
    ELSE IF \E k \in DOMAIN subs : Flagged(subs[k])
    THEN \E k \in DOMAIN subs :
            /\ Flagged(subs[k])
            /\ \A j \in 1 .. k - 1 : ~Flagged(subs[j])
            /\ id = subs[k].subscription_id
    ELSE id = subs[1].subscription_id

\* C19: on the visible subscriptions get_subscription_id fails with an error
\* when there is none and otherwise returns the id the selection rule names;
\* and the id the clients were built with is that id.
C19_SubscriptionChoice ==
    LET r == get_subscription_id(Ok, subscriptions) IN
    /\ subscriptions = <<>> => ~r.ok /\ r.err # NoError
    /\ subscriptions # <<>> => r.ok /\ Selected(subscriptions, r.id)
    /\ subscription_id # "" => subscriptions # <<>> /\ Selected(subscriptions, subscription_id)
    /\ (subscriptions = <<>> /\ mpc \notin {"start", "clients"}) => ClientInitFailed

\* Several subscriptions, the first one not flagged, a later one flagged and
\* selected.
C19_Witness ==
    /\ mpc = "orchestrate"
    /\ Len(subscriptions) > 1
    /\ ~Flagged(subscriptions[1])
    /\ Flagged(subscriptions[2])
    /\ subscription_id = subscriptions[2].subscription_id

\* C20: in a run with no visible subscription main() never gets past client
\* initialisation: the account listing is never called, nothing is prompted,
\* submitted or deleted, and when main() has ended it has ended in failure.
C20_NoSubscription ==
    subscriptions = <<>> =>
        /\ mpc \in {"start", "clients", "exited"}
        /\ opc = "idle"
        /\ list_calls = 0
        /\ prompted = <<>>
        /\ NothingSubmitted
        /\ NoDeleteIssued
        /\ remote = initial
        /\ mpc = "exited" => main_end.how \in {"exit", "uncaught"} /\ ExitStatus(main_end) = 1

\* main() has ended in a run with no visible subscription.
C20_Witness ==
    /\ subscriptions = <<>>
    /\ mpc = "exited"
    /\ listing # <<>>

\* Stage 1 of cascade t ended without an error: stage 2 is next or under way.
VolumeStagePassed(t) ==
    \/ task[t].state = "running" /\ task[t].pc = "list_vaults"
    \/ \E i \in DOMAIN task[t].trace : IsListOf(task[t].trace[i], "vaults")

\* The vaults of cascade t whose backups have all been dealt with: the vault
\* delete is next or has been issued.
VaultsEmptied(t) ==
    (IF task[t].state = "running" /\ task[t].pc = "delete_vault"
     THEN {vault_name(task[t])} ELSE {})
    \cup { task[t].trace[i].target[4] :
             i \in { k \in DOMAIN task[t].trace : IsDelete(task[t].trace[k], {"vault"}) } }

\* C21: once stage 1 of a cascade has ended without an error, listing the
\* volumes of any of the account's pools again yields nothing; once the
\* backups of a vault have been dealt with, listing that vault's backups again
\* yields nothing.
C21_RelistEmpty ==
    \A t \in DOMAIN task :
        LET tk == task[t] IN
        /\ VolumeStagePassed(t) =>
              \A k \in DOMAIN tk.pools :
                  ListedVolumes(remote, tk.rg, tk.name, tk.pools[k]) = <<>>
        /\ \A bv \in VaultsEmptied(t) :
              ListedBackups(remote, tk.rg, tk.name, bv) = <<>>

\* A cascade that deleted a volume and a backup and has reached the account
\* delete.
C21_Witness ==
    \E t \in DOMAIN task :
        LET tr == task[t].trace IN
        /\ task[t].state = "running" /\ task[t].pc = "delete_account"
        /\ \E i \in DOMAIN tr : IsDelete(tr[i], {"volume"}) /\ CompletedDelete(tr[i])
        /\ \E i \in DOMAIN tr : IsDelete(tr[i], {"backup"}) /\ CompletedDelete(tr[i])

\* C22: from the moment main() turns to client initialisation on,
\* REQUESTS_CA_BUNDLE is not set, whatever the environment was at startup; and
\* nothing else was taken out of the environment.
C22_CaBundleCleared ==
    mpc # "start" =>
        /\ CaBundle \notin environ
        /\ environ = startup_environ \ {CaBundle}

\* Client initialisation is about to begin in a process that was started
\* with REQUESTS_CA_BUNDLE set.
C22_Witness ==
    /\ mpc = "clients"
    /\ CaBundle \in startup_environ
    /\ CaBundle \notin environ

Sleeps(tr) == SelectSeq(tr, LAMBDA e : e.op = "sleep")

\* The first k account-delete attempts met the conflict and the next one
\* succeeded.
Recovered(tr, k) ==
    /\ Len(Attempts(tr)) = k + 1
    /\ \A j \in 1 .. k : IsConflict(Attempts(tr)[j])
    /\ Attempts(tr)[k + 1].ok

\* C23: a cascade whose first k account-delete attempts (k = 1 or 2) met the
\* nested-resources conflict and whose next attempt succeeded has slept
\* exactly k times, 30 each time, once after each conflict, has made exactly
\* k + 1 attempts, and goes on to the resource-group delete, whose outcome is
\* the cascade's outcome.
C23_RetryRecovery ==
    \A t \in DOMAIN task : \A k \in {1, 2} :
        LET tr == task[t].trace
            st == AccountStage(tr) IN
        Recovered(tr, k) =>
            /\ Len(Sleeps(tr)) = k
            /\ \A j \in 1 .. k : Sleeps(tr)[j].dur = 30
            /\ Len(st) >= 2 * k + 1
            /\ \A j \in 1 .. k : IsAccountDelete(st[2 * j - 1]) /\ st[2 * j].op = "sleep"
            /\ IsAccountDelete(st[2 * k + 1])
            /\ IF Len(st) = 2 * k + 1
               THEN task[t].state = "running" /\ task[t].pc = "delete_rg"
               ELSE /\ Len(st) = 2 * k + 2
                    /\ IsGroupDelete(st[2 * k + 2])
                    /\ tr[Len(tr)] = st[2 * k + 2]
                    /\ TaskDone(t)
                    /\ task[t].state = "succeeded" <=> st[2 * k + 2].ok

\* A cascade that succeeded on its third account-delete attempt.
C23_Witness ==
    \E t \in DOMAIN task :
        /\ task[t].state = "succeeded"
        /\ Recovered(task[t].trace, 2)

\* The backups that vault bv of account (rg, a) held at the start.
BackupsOf(rg, a, bv) ==
    { b \in initial : b[1] = "backup" /\ b[2] = rg /\ b[3] = a /\ b[4] = bv }

\* C24: a vault delete comes after the listing of that vault's backups and
\* after the completed delete of every backup the vault held; the fetch of a
\* vault comes right after that vault's completed delete; the listing of a
\* further vault's backups comes right after the previous vault's fetch
\* answered "not found".
C24_VaultProtocol ==
    \A t \in DOMAIN task :
        LET tr == task[t].trace IN
        \A j \in DOMAIN tr :
            /\ IsDelete(tr[j], {"vault"}) =>
                  /\ \E i \in 1 .. j - 1 :
                        IsListOf(tr[i], "backups") /\ tr[i].ok /\ tr[i].target[4] = tr[j].target[4]
                  /\ \A b \in BackupsOf(tr[j].target[2], tr[j].target[3], tr[j].target[4]) :
                        \E i \in 1 .. j - 1 : tr[i].target = b /\ CompletedDelete(tr[i])
                  /\ \A i \in DOMAIN tr :
                        (IsDelete(tr[i], {"backup"}) /\ tr[i].target[4] = tr[j].target[4])
                            => (i < j /\ tr[i].ok)
            /\ tr[j].op = "get" =>
                  /\ j > 1 /\ IsDelete(tr[j - 1], {"vault"}) /\ tr[j - 1].ok
                  /\ tr[j - 1].target = tr[j].target
            /\ (IsListOf(tr[j], "backups") /\ \E i \in 1 .. j - 1 : IsListOf(tr[i], "backups")) =>
                  /\ ExpectedNotFound(tr[j - 1])
                  /\ tr[j - 1].target[4] # tr[j].target[4]

\* A cascade that took two vaults, each with a backup, through the protocol.
C24_Witness ==
    \E t \in DOMAIN task :
        LET tr == task[t].trace IN
        \E i, j \in DOMAIN tr :
            /\ i < j
            /\ IsDelete(tr[i], {"vault"}) /\ IsDelete(tr[j], {"vault"})
            /\ tr[i].target # tr[j].target
            /\ BackupsOf(tr[j].target[2], tr[j].target[3], tr[j].target[4]) # {}
            /\ j < Len(tr) /\ ExpectedNotFound(tr[j + 1])

\* C25: a post-delete fetch that fails with anything but "not found" is the
\* cascade's last call and the only fetch of that vault; the cascade has failed
\* with that error and has not moved on from that vault.
C25_FetchErrorFatal ==
    \A t \in DOMAIN task :
        LET tr == task[t].trace IN
        \A i \in DOMAIN tr :
            (tr[i].op = "get" /\ ~tr[i].ok /\ tr[i].err.type # "ResourceNotFoundError") =>
                /\ FailedLast(t, i)
                /\ task[t].pc = "done"
                /\ Cardinality({ k \in DOMAIN tr : tr[k].op = "get" /\ tr[k].target = tr[i].target }) = 1
                /\ vault_name(task[t]) = tr[i].target[4]

\* A cascade that died on a service error of the post-delete fetch.
C25_Witness ==
    \E t \in DOMAIN task :
        LET tr == task[t].trace IN
        /\ task[t].state = "failed"
        /\ tr # <<>>
        /\ tr[Len(tr)].op = "get" /\ ~tr[Len(tr)].ok
        /\ tr[Len(tr)].err.msg = "service error"

\* The listing call failed: the function has ended without a pool, with the
\* listing's exception on its way out.
ListingFailed == opc = "returned" /\ ~pool_created /\ raised # NoError

\* C26: when the account listing call failed, the function has ended by
\* raising that listing error, unchanged, and nothing was prompted, submitted
\* or deleted.
C26_ListingErrorSurfaced ==
    ListingFailed =>
        /\ result = RaisedWith(raised)
        /\ prompted = <<>>
        /\ NothingSubmitted
        /\ NoDeleteIssued
        /\ remote = initial

\* What follows the last "/" of s (all of s when it holds no "/").
AfterLastSlash(s) ==
    LET at == { i \in DOMAIN s : s[i] = "/" }
        last == IF at = {} THEN 0 ELSE CHOOSE i \in at : \A j \in at : j <= i IN
    SubSeq(s, last + 1, Len(s))

SuffixesOf(names) == { AfterLastSlash(names[k]) : k \in DOMAIN names }

\* C27: in a cascade on an identifier of at least 5 segments every provider
\* call names segment 4 (counted from 0) as the resource group and the last
\* segment as the account; every call on a vault or on its backups names the
\* vault by what follows the last "/" of a listed vault name, and every
\* backup delete names the backup by what follows the last "/" of a backup
\* name listed for that vault.
C27_NamesUsed ==
    \A t \in DOMAIN task :
        LET tk == task[t]
            tr == tk.trace
            parts == Split(tk.id) IN
        Segments(tk.id) >= 5 =>
            \A i \in DOMAIN tr :
                LET x == tr[i].target IN
                IsCall(tr[i]) =>
                    /\ x[2] = parts[5]
                    /\ Len(x) >= 3 => x[3] = parts[Len(parts)]
                    /\ x[1] \in {"vault", "backups", "backup"} => x[4] \in SuffixesOf(tk.vaults)
                    /\ x[1] = "backup" =>
                          x[5] \in SuffixesOf(ListedBackups(initial, x[2], x[3], x[4]))

\* A cascade on a well-formed identifier that deleted a backup and went on to
\* the account delete.
C27_Witness ==
    \E t \in DOMAIN task :
        LET tr == task[t].trace IN
        /\ Segments(task[t].id) >= 5
        /\ \E i \in DOMAIN tr : IsDelete(tr[i], {"backup"}) /\ tr[i].ok
        /\ \E i \in DOMAIN tr : IsDelete(tr[i], {"vault"}) /\ tr[i].ok
        /\ \E i \in DOMAIN tr : IsAccountDelete(tr[i])

====
